---- MODULE Spec2Model ----
(***************************************************************************)
(* Model of src/workers.py: the retryable HTTP request (_retryable), the   *)
(* IsolationForest parameter tuning (isolation_forest_params), the two     *)
(* detection strategies (scikitlearn, rad_original) and the per-job worker *)
(* thread started by ai_service_worker.                                    *)
(*                                                                         *)
(* Float factors are held in fixed point, in units of 1/10000: 0.001 is    *)
(* 10, 0.2 is 2000, 1.0 is 10000.  On the factors and row counts used here *)
(* the fixed-point product truncates to the same integer as CPython's      *)
(* int(rows * factor) on doubles.                                          *)
(***************************************************************************)
EXTENDS Integers, Sequences, FiniteSets, TLC

VARIABLES RAD_STRATEGY, pc, args, loc, sent, retry_result, trace,
          METRICS, LOG, uuid_issued, handles, t_args, t_ret

vars == <<RAD_STRATEGY, pc, args, loc, sent, retry_result, trace,
          METRICS, LOG, uuid_issued, handles, t_args, t_ret>>

workerVars == <<RAD_STRATEGY, pc, args, loc, sent, retry_result, trace,
                METRICS, LOG, uuid_issued, handles>>

(***************************************************************************)
(* Bounds of the model.                                                    *)
(***************************************************************************)
MaxUnits == 2
MaxRows == 10

Units == 1..MaxUnits

(***************************************************************************)
(* Module-level configuration (lines 17-19).                               *)
(***************************************************************************)
MAX_RETRIES == 3
FEATURE_LIST == <<"cpu", "memory">>
Strategies == {"scikitlearn", "original"}

(***************************************************************************)
(* Fixed-point images of the float literals of isolation_forest_params.    *)
(***************************************************************************)
LowerFactor == 10
UpperFactor == 10000
FallbackFactor == 2000

(***************************************************************************)
(* isolation_forest_params (lines 52-68).  int() truncates; every product  *)
(* here is non-negative, where truncation is the integer quotient.         *)
(***************************************************************************)
(* The comparison with the bounds let in. *)
InsideClosedInterval(factor) == LowerFactor <= factor /\ factor <= UpperFactor

InsideOpenInterval(factor) == LowerFactor < factor /\ factor < UpperFactor

TruncToInt(scaled) == scaled \div UpperFactor

isolation_forest_params(trees_factor, sample_factor, data_rows) ==
    LET num_trees == IF InsideOpenInterval(trees_factor)
                     THEN data_rows * trees_factor
                     ELSE data_rows * FallbackFactor
        sample_size == IF InsideOpenInterval(sample_factor)
                       THEN data_rows * sample_factor
                       ELSE data_rows * FallbackFactor
    IN  <<TruncToInt(num_trees), TruncToInt(sample_size)>>

(***************************************************************************)
(* The jobs and per-invocation arguments a caller hands to                 *)
(* ai_service_worker (lines 115-120): job, next_service, env, b64_identity.*)
(* A Python dict is a function; a missing key is a name outside its DOMAIN.*)
(***************************************************************************)
EnvScaled == [num_trees_factor |-> 3000, sample_size_factor |-> 3000,
              min_score |-> 1, ai_service |-> "aiops-rad"]
EnvFallback == [num_trees_factor |-> 10000, sample_size_factor |-> 10,
                min_score |-> 1, ai_service |-> "aiops-rad"]

CallArgs ==
    { [job |-> [data |-> [total |-> 5, inventory |-> "inv-a"]],
       next_service |-> "http://next/a", env |-> EnvScaled, b64_identity |-> "id-a"],
      [job |-> [account |-> "A1"],
       next_service |-> "http://next/a", env |-> EnvScaled, b64_identity |-> "id-a"],
      [job |-> [account |-> "A1", data |-> [inventory |-> "inv-a"]],
       next_service |-> "http://next/a", env |-> EnvScaled, b64_identity |-> "id-a"],
      [job |-> [account |-> "A1", data |-> [total |-> 0, inventory |-> "inv-0"]],
       next_service |-> "http://next/a", env |-> EnvScaled, b64_identity |-> "id-a"],
      [job |-> [account |-> "A1", data |-> [total |-> 100, inventory |-> "inv-a"]],
       next_service |-> "http://next/a", env |-> EnvScaled, b64_identity |-> "id-a"],
      [job |-> [account |-> "A2", data |-> [total |-> 1, inventory |-> "inv-b"]],
       next_service |-> "http://next/b", env |-> EnvFallback, b64_identity |-> "None"] }

NoArgs == <<>>

HasKey(dict, key) == key \in DOMAIN dict

(* The try block of lines 127-129 raises KeyError. *)
RaisesKeyError(job) ==
    IF HasKey(job, "account") /\ HasKey(job, "data")
    THEN ~HasKey(job.data, "total")
    ELSE TRUE

(***************************************************************************)
(* Locals of one worker call, before any assignment.                       *)
(***************************************************************************)
NoFrame == [rows |-> 0, inventory |-> ""]
NoResults == [frame |-> NoFrame, num_trees |-> 0, sample_size |-> 0,
              min_score |-> 0, by |-> ""]
NoOutput == [id |-> 0, ai_service |-> "",
             data |-> [account_number |-> "", results |-> NoResults,
                       feature_list |-> <<>>, common_data |-> [charts |-> <<>>]]]
InitLocals == [account_id |-> "", rows |-> 0, batch_id |-> 0,
               num_trees |-> 0, sample_size |-> 0,
               data_frame |-> NoFrame, results |-> NoResults,
               output |-> NoOutput]

Terminated == {"done", "raised"}

(* The warning and error records and the zero-row notice the code logs;
   its debug and progress lines are left out. *)
LogEntry(u, level, msg, ref) ==
    [thread |-> u, level |-> level, msg |-> msg, ref |-> ref]

(* REQUEST_TIME.time() wraps worker (line 122): the timer observes when the
   call leaves worker, by return or by exception. *)
ObserveRequestTime(m) == [m EXCEPT !.request_time = @ + 1]

Init ==
    /\ RAD_STRATEGY \in Strategies
    /\ pc = [u \in Units |-> "idle"]
    /\ args = [u \in Units |-> NoArgs]
    /\ loc = [u \in Units |-> InitLocals]
    /\ sent = [u \in Units |-> <<>>]
    /\ retry_result = [u \in Units |-> "none"]
    /\ trace = [u \in Units |-> <<>>]
    /\ METRICS = [request_time |-> 0, processing_time |-> 0,
                  preparation_time |-> 0,
                  data_size |-> [count |-> 0, sum |-> 0],
                  jobs_published |-> 0]
    /\ LOG = {}
    /\ uuid_issued = {}
    /\ handles = {}
    /\ t_args = <<>>
    /\ t_ret = <<>>

(***************************************************************************)
(* ai_service_worker (lines 115-217): build the thread, start it, return   *)
(* it.  Threads are named in the order they are created.                   *)
(***************************************************************************)
(* The caller joins the thread before the next start. *)
ai_service_worker_joined(u, a) ==
    /\ pc[u] = "idle"
    /\ \A v \in Units : v < u => pc[v] \in Terminated
    /\ pc' = [pc EXCEPT ![u] = "validate"]
    /\ args' = [args EXCEPT ![u] = a]
    /\ handles' = handles \cup {u}
    /\ UNCHANGED <<RAD_STRATEGY, loc, sent, retry_result, trace, METRICS, LOG,
                   uuid_issued, t_args, t_ret>>

ai_service_worker(u, a) ==
    /\ pc[u] = "idle"
    /\ \A v \in Units : v < u => pc[v] # "idle"
    /\ pc' = [pc EXCEPT ![u] = "validate"]
    /\ args' = [args EXCEPT ![u] = a]
    /\ handles' = handles \cup {u}
    /\ UNCHANGED <<RAD_STRATEGY, loc, sent, retry_result, trace, METRICS, LOG,
                   uuid_issued, t_args, t_ret>>


Enter(tr, stage) ==
    IF tr # <<>> /\ tr[Len(tr)] = stage THEN tr ELSE Append(tr, stage)

(***************************************************************************)
(* worker, Validate (lines 124-139).                                       *)
(***************************************************************************)
(* The locals when KeyError is raised: line 128 assigns account_id when job
   has both keys, and line 129 then fails on total. *)
AfterKeyError(locals, job) ==
    IF HasKey(job, "account") /\ HasKey(job, "data")
    THEN [locals EXCEPT !.account_id = job.account]
    ELSE locals

(* The KeyError is not caught. *)
ValidateKeyErrorUncaught(u) ==
    /\ pc[u] = "validate"
    /\ RaisesKeyError(args[u].job)
    /\ pc' = [pc EXCEPT ![u] = "raised"]
    /\ loc' = [loc EXCEPT ![u] = AfterKeyError(@, args[u].job)]
    /\ trace' = [trace EXCEPT ![u] = Enter(@, "validate")]
    /\ METRICS' = ObserveRequestTime(METRICS)
    /\ UNCHANGED <<RAD_STRATEGY, args, sent, retry_result, LOG,
                   uuid_issued, handles, t_args, t_ret>>

(* The histogram is observed ahead of the key lookups, with 0 for a job
   that has no total. *)
ValidateKeyErrorObserved(u) ==
    /\ pc[u] = "validate"
    /\ RaisesKeyError(args[u].job)
    /\ pc' = [pc EXCEPT ![u] = "done"]
    /\ trace' = [trace EXCEPT ![u] = Enter(@, "validate")]
    /\ loc' = [loc EXCEPT ![u] = AfterKeyError(@, args[u].job)]
    /\ LOG' = LOG \cup {LogEntry(u, "error", "invalid job data", 0)}
    /\ METRICS' = ObserveRequestTime(
                    [METRICS EXCEPT !.data_size.count = @ + 1])
    /\ UNCHANGED <<RAD_STRATEGY, args, sent, retry_result, uuid_issued,
                   handles, t_args, t_ret>>

(* KeyError in the try block: logged, the worker returns. *)
ValidateKeyError(u) ==
    /\ pc[u] = "validate"
    /\ RaisesKeyError(args[u].job)
    /\ pc' = [pc EXCEPT ![u] = "done"]
    /\ trace' = [trace EXCEPT ![u] = Enter(@, "validate")]
    /\ loc' = [loc EXCEPT ![u] = AfterKeyError(@, args[u].job)]
    /\ LOG' = LOG \cup {LogEntry(u, "error", "invalid job data", 0)}
    /\ METRICS' = ObserveRequestTime(METRICS)
    /\ UNCHANGED <<RAD_STRATEGY, args, sent, retry_result, uuid_issued,
                   handles, t_args, t_ret>>

(* The return of the zero-row branch is missing. *)
ValidateZeroFallsThrough(u) ==
    /\ pc[u] = "validate"
    /\ ~RaisesKeyError(args[u].job)
    /\ args[u].job.data.total = 0
    /\ pc' = [pc EXCEPT ![u] = "mint"]
    /\ loc' = [loc EXCEPT ![u].account_id = args[u].job.account,
                          ![u].rows = args[u].job.data.total]
    /\ trace' = [trace EXCEPT ![u] = Enter(@, "validate")]
    /\ LOG' = LOG \cup {LogEntry(u, "info", "no system in data", 0)}
    /\ METRICS' = [METRICS EXCEPT !.data_size.count = @ + 1,
                                  !.data_size.sum = @ + args[u].job.data.total]
    /\ UNCHANGED <<RAD_STRATEGY, args, sent, retry_result, uuid_issued,
                   handles, t_args, t_ret>>

(* The zero-row check comes ahead of the histogram. *)
ValidateZeroUnobserved(u) ==
    /\ pc[u] = "validate"
    /\ ~RaisesKeyError(args[u].job)
    /\ args[u].job.data.total = 0
    /\ pc' = [pc EXCEPT ![u] = "done"]
    /\ loc' = [loc EXCEPT ![u].account_id = args[u].job.account,
                          ![u].rows = args[u].job.data.total]
    /\ trace' = [trace EXCEPT ![u] = Enter(@, "validate")]
    /\ LOG' = LOG \cup {LogEntry(u, "info", "no system in data", 0)}
    /\ METRICS' = ObserveRequestTime(METRICS)
    /\ UNCHANGED <<RAD_STRATEGY, args, sent, retry_result, uuid_issued,
                   handles, t_args, t_ret>>

(* rows == 0: observed in data_size, logged, the worker returns. *)
ValidateZero(u) ==
    /\ pc[u] = "validate"
    /\ ~RaisesKeyError(args[u].job)
    /\ args[u].job.data.total = 0
    /\ pc' = [pc EXCEPT ![u] = "done"]
    /\ loc' = [loc EXCEPT ![u].account_id = args[u].job.account,
                          ![u].rows = args[u].job.data.total]
    /\ trace' = [trace EXCEPT ![u] = Enter(@, "validate")]
    /\ LOG' = LOG \cup {LogEntry(u, "info", "no system in data", 0)}
    /\ METRICS' = ObserveRequestTime(
                    [METRICS EXCEPT !.data_size.count = @ + 1,
                                    !.data_size.sum = @ + args[u].job.data.total])
    /\ UNCHANGED <<RAD_STRATEGY, args, sent, retry_result, uuid_issued,
                   handles, t_args, t_ret>>

ValidateOk(u) ==
    /\ pc[u] = "validate"
    /\ ~RaisesKeyError(args[u].job)
    /\ args[u].job.data.total # 0
    /\ pc' = [pc EXCEPT ![u] = "mint"]
    /\ loc' = [loc EXCEPT ![u].account_id = args[u].job.account,
                          ![u].rows = args[u].job.data.total]
    /\ trace' = [trace EXCEPT ![u] = Enter(@, "validate")]
    /\ METRICS' = [METRICS EXCEPT !.data_size.count = @ + 1,
                                  !.data_size.sum = @ + args[u].job.data.total]
    /\ UNCHANGED <<RAD_STRATEGY, args, sent, retry_result, LOG, uuid_issued,
                   handles, t_args, t_ret>>

(* uuid.uuid1() (line 141): a time-based identifier that no other call of
   the process returns.  The identifiers are opaque to the code, so the one
   returned to the call of thread u is named after u; 0 stands for a
   batch_id not assigned yet. *)
uuid1(u) == u

(* The parameters are not tuned before the preparation. *)
MintBatchIdSkipsTune(u) ==
    /\ pc[u] = "mint"
    /\ uuid1(u) \notin uuid_issued
    /\ uuid_issued' = uuid_issued \cup {uuid1(u)}
    /\ loc' = [loc EXCEPT ![u].batch_id = uuid1(u)]
    /\ pc' = [pc EXCEPT ![u] = "prepare"]
    /\ trace' = [trace EXCEPT ![u] = Enter(@, "mint")]
    /\ UNCHANGED <<RAD_STRATEGY, args, sent, retry_result, METRICS, LOG,
                   handles, t_args, t_ret>>

(* The batch id is computed from the content of the job. *)
MintBatchIdFromContent(u) ==
    /\ pc[u] = "mint"
    /\ uuid_issued' = uuid_issued
    /\ loc' = [loc EXCEPT ![u].batch_id = args[u].job.data.total]
    /\ pc' = [pc EXCEPT ![u] = "tune"]
    /\ trace' = [trace EXCEPT ![u] = Enter(@, "mint")]
    /\ UNCHANGED <<RAD_STRATEGY, args, sent, retry_result, METRICS, LOG,
                   handles, t_args, t_ret>>

(***************************************************************************)
(* batch_id = str(uuid.uuid1()) (lines 141-145).                           *)
(***************************************************************************)
MintBatchId(u) ==
    /\ pc[u] = "mint"
    /\ uuid1(u) \notin uuid_issued
    /\ uuid_issued' = uuid_issued \cup {uuid1(u)}
    /\ loc' = [loc EXCEPT ![u].batch_id = uuid1(u)]
    /\ pc' = [pc EXCEPT ![u] = "tune"]
    /\ trace' = [trace EXCEPT ![u] = Enter(@, "mint")]
    /\ UNCHANGED <<RAD_STRATEGY, args, sent, retry_result, METRICS, LOG,
                   handles, t_args, t_ret>>

(***************************************************************************)
(* num_trees, sample_size = isolation_forest_params(...) (lines 147-151).  *)
(***************************************************************************)
Tune(u) ==
    /\ pc[u] = "tune"
    /\ LET p == isolation_forest_params(args[u].env.num_trees_factor,
                                        args[u].env.sample_size_factor,
                                        loc[u].rows)
       IN  loc' = [loc EXCEPT ![u].num_trees = p[1], ![u].sample_size = p[2]]
    /\ pc' = [pc EXCEPT ![u] = "prepare"]
    /\ trace' = [trace EXCEPT ![u] = Enter(@, "tune")]
    /\ UNCHANGED <<RAD_STRATEGY, args, sent, retry_result, METRICS, LOG,
                   uuid_issued, handles, t_args, t_ret>>

(***************************************************************************)
(* Preparation under the preparation_time timer (lines 153-156).  The rad  *)
(* library calls either return a frame or raise; the timer observes both   *)
(* ways out, and an exception leaves worker uncaught.                      *)
(***************************************************************************)
PrepareOk(u) ==
    /\ pc[u] = "prepare"
    /\ loc' = [loc EXCEPT ![u].data_frame =
                  [rows |-> loc[u].rows,
                   inventory |-> args[u].job.data.inventory]]
    /\ pc' = [pc EXCEPT ![u] = "detect"]
    /\ trace' = [trace EXCEPT ![u] = Enter(@, "prepare")]
    /\ METRICS' = [METRICS EXCEPT !.preparation_time = @ + 1]
    /\ UNCHANGED <<RAD_STRATEGY, args, sent, retry_result, LOG,
                   uuid_issued, handles, t_args, t_ret>>

PrepareRaises(u) ==
    /\ pc[u] = "prepare"
    /\ pc' = [pc EXCEPT ![u] = "raised"]
    /\ trace' = [trace EXCEPT ![u] = Enter(@, "prepare")]
    /\ METRICS' = ObserveRequestTime(
                    [METRICS EXCEPT !.preparation_time = @ + 1])
    /\ UNCHANGED <<RAD_STRATEGY, args, loc, sent, retry_result, LOG,
                   uuid_issued, handles, t_args, t_ret>>

(***************************************************************************)
(* The two strategies (lines 71-112), both under PROCESSING_TIME.time().   *)
(* Each returns the results of the library or lets its exception through.  *)
(***************************************************************************)
scikitlearn(data_frame, num_of_tress, sample_size) ==
    [frame |-> data_frame, num_trees |-> num_of_tress,
     sample_size |-> sample_size, min_score |-> 0, by |-> "scikitlearn"]

rad_original(data_frame, num_of_tress, sample_size, min_score) ==
    [frame |-> data_frame, num_trees |-> num_of_tress,
     sample_size |-> sample_size, min_score |-> min_score, by |-> "original"]

(* Lines 158-170: the strategy returns. *)
DetectScikitlearn(u) ==
    /\ pc[u] = "detect"
    /\ RAD_STRATEGY = "scikitlearn"
    /\ loc' = [loc EXCEPT ![u].results =
                  scikitlearn(loc[u].data_frame, loc[u].num_trees,
                              loc[u].sample_size)]
    /\ pc' = [pc EXCEPT ![u] = "package"]
    /\ trace' = [trace EXCEPT ![u] = Enter(@, "detect")]
    /\ METRICS' = [METRICS EXCEPT !.processing_time = @ + 1]
    /\ UNCHANGED <<RAD_STRATEGY, args, sent, retry_result, LOG,
                   uuid_issued, handles, t_args, t_ret>>

DetectOriginal(u) ==
    /\ pc[u] = "detect"
    /\ RAD_STRATEGY # "scikitlearn"
    /\ loc' = [loc EXCEPT ![u].results =
                  rad_original(loc[u].data_frame, loc[u].num_trees,
                               loc[u].sample_size, args[u].env.min_score)]
    /\ pc' = [pc EXCEPT ![u] = "package"]
    /\ trace' = [trace EXCEPT ![u] = Enter(@, "detect")]
    /\ METRICS' = [METRICS EXCEPT !.processing_time = @ + 1]
    /\ UNCHANGED <<RAD_STRATEGY, args, sent, retry_result, LOG,
                   uuid_issued, handles, t_args, t_ret>>

(* The exception of the strategy takes the whole process down. *)
DetectRaisesKillsAll(u) ==
    /\ pc[u] = "detect"
    /\ pc' = [v \in Units |->
                 IF v = u \/ pc[v] \notin {"idle", "done", "raised"}
                 THEN "raised" ELSE pc[v]]
    /\ trace' = [trace EXCEPT ![u] = Enter(@, "detect")]
    /\ METRICS' = ObserveRequestTime(
                    [METRICS EXCEPT !.processing_time = @ + 1])
    /\ UNCHANGED <<RAD_STRATEGY, args, loc, sent, retry_result, LOG,
                   uuid_issued, handles, t_args, t_ret>>

(* The exception of the strategy is swallowed and the worker goes on
   without results. *)
DetectRaisesSwallowed(u) ==
    /\ pc[u] = "detect"
    /\ pc' = [pc EXCEPT ![u] = "package"]
    /\ trace' = [trace EXCEPT ![u] = Enter(@, "detect")]
    /\ METRICS' = [METRICS EXCEPT !.processing_time = @ + 1]
    /\ UNCHANGED <<RAD_STRATEGY, args, loc, sent, retry_result, LOG,
                   uuid_issued, handles, t_args, t_ret>>

(* Lines 158-170: the strategy raises; nothing in worker catches it. *)
DetectRaises(u) ==
    /\ pc[u] = "detect"
    /\ pc' = [pc EXCEPT ![u] = "raised"]
    /\ trace' = [trace EXCEPT ![u] = Enter(@, "detect")]
    /\ METRICS' = ObserveRequestTime(
                    [METRICS EXCEPT !.processing_time = @ + 1])
    /\ UNCHANGED <<RAD_STRATEGY, args, loc, sent, retry_result, LOG,
                   uuid_issued, handles, t_args, t_ret>>

(* The account is read from the job of the thread started last, as it would
   be from a variable all workers share. *)
PackageLatestJob(u) ==
    /\ pc[u] = "package"
    /\ LET last == CHOOSE v \in Units :
                       /\ pc[v] # "idle"
                       /\ \A w \in Units : pc[w] # "idle" => w <= v
           account == IF HasKey(args[last].job, "account")
                      THEN args[last].job.account ELSE "None"
       IN  loc' = [loc EXCEPT ![u].output =
                      [id |-> loc[u].batch_id,
                       ai_service |-> args[u].env.ai_service,
                       data |-> [account_number |-> account,
                                 results |-> loc[u].results,
                                 feature_list |-> FEATURE_LIST,
                                 common_data |-> [charts |-> <<>>]]]]
    /\ pc' = [pc EXCEPT ![u] = "deliver"]
    /\ trace' = [trace EXCEPT ![u] = Enter(@, "package")]
    /\ UNCHANGED <<RAD_STRATEGY, args, sent, retry_result, METRICS, LOG,
                   uuid_issued, handles, t_args, t_ret>>

(***************************************************************************)
(* Build the response JSON (lines 176-196).                                *)
(***************************************************************************)
Package(u) ==
    /\ pc[u] = "package"
    /\ loc' = [loc EXCEPT ![u].output =
                  [id |-> loc[u].batch_id,
                   ai_service |-> args[u].env.ai_service,
                   data |-> [account_number |-> loc[u].account_id,
                             results |-> loc[u].results,
                             feature_list |-> FEATURE_LIST,
                             common_data |-> [charts |-> <<>>]]]]
    /\ pc' = [pc EXCEPT ![u] = "deliver"]
    /\ trace' = [trace EXCEPT ![u] = Enter(@, "package")]
    /\ UNCHANGED <<RAD_STRATEGY, args, sent, retry_result, METRICS, LOG,
                   uuid_issued, handles, t_args, t_ret>>

(***************************************************************************)
(* _retryable (lines 22-49), called at lines 199-205 with                  *)
(* ('post', next_service, json=output, headers={"x-rh-identity": ...}).    *)
(* Each pass of the for loop sends one request; len(sent) is the loop      *)
(* variable attempt of the next pass.                                      *)
(***************************************************************************)
Request(u) ==
    [method |-> "post", url |-> args[u].next_service, json |-> loc[u].output,
     headers |-> [x_rh_identity |-> args[u].b64_identity]]

Caught == {"HTTPError", "ConnectionError"}

(* The envelope is built anew, under a new identifier, for the next pass. *)
AttemptFailsRebuilds(u, error) ==
    /\ pc[u] = "deliver"
    /\ Len(sent[u]) < MAX_RETRIES
    /\ error \in Caught
    /\ sent' = [sent EXCEPT ![u] =
                   Append(@, [request |-> Request(u), outcome |-> "failed"])]
    /\ loc' = [loc EXCEPT ![u].output.id = @ + MaxUnits]
    /\ LOG' = LOG \cup {LogEntry(u, "warning", "request failed", Len(sent[u]))}
    /\ trace' = [trace EXCEPT ![u] = Enter(@, "deliver")]
    /\ UNCHANGED <<RAD_STRATEGY, pc, args, retry_result, METRICS,
                   uuid_issued, handles, t_args, t_ret>>

(* A caught failure on the last pass starts the count of passes over. *)
AttemptFailsStartsOver(u, error) ==
    /\ pc[u] = "deliver"
    /\ Len(sent[u]) < MAX_RETRIES
    /\ error \in Caught
    /\ sent' = [sent EXCEPT ![u] =
                   IF Len(@) = MAX_RETRIES - 1
                   THEN <<[request |-> Request(u), outcome |-> "failed"]>>
                   ELSE Append(@, [request |-> Request(u),
                                   outcome |-> "failed"])]
    /\ LOG' = LOG \cup {LogEntry(u, "warning", "request failed", Len(sent[u]))}
    /\ trace' = [trace EXCEPT ![u] = Enter(@, "deliver")]
    /\ UNCHANGED <<RAD_STRATEGY, pc, args, loc, retry_result, METRICS,
                   uuid_issued, handles, t_args, t_ret>>

(* One pass whose request raises an exception the except clause names (a
   4xx/5xx status through raise_for_status, or a connection failure): a
   warning with the attempt index, then continue.  The two are handled by
   the same clause and are recorded alike. *)
AttemptFails(u, error) ==
    /\ pc[u] = "deliver"
    /\ Len(sent[u]) < MAX_RETRIES
    /\ error \in Caught
    /\ sent' = [sent EXCEPT ![u] =
                   Append(@, [request |-> Request(u), outcome |-> "failed"])]
    /\ LOG' = LOG \cup {LogEntry(u, "warning", "request failed", Len(sent[u]))}
    /\ trace' = [trace EXCEPT ![u] = Enter(@, "deliver")]
    /\ UNCHANGED <<RAD_STRATEGY, pc, args, loc, retry_result, METRICS,
                   uuid_issued, handles, t_args, t_ret>>

(* The loop goes on after a good response. *)
AttemptSucceedsNoReturn(u) ==
    /\ pc[u] = "deliver"
    /\ Len(sent[u]) < MAX_RETRIES
    /\ sent' = [sent EXCEPT ![u] =
                   Append(@, [request |-> Request(u), outcome |-> "ok"])]
    /\ trace' = [trace EXCEPT ![u] = Enter(@, "deliver")]
    /\ UNCHANGED <<RAD_STRATEGY, pc, args, loc, retry_result, METRICS, LOG,
                   uuid_issued, handles, t_args, t_ret>>

(* One pass whose response passes raise_for_status: return resp. *)
AttemptSucceeds(u) ==
    /\ pc[u] = "deliver"
    /\ Len(sent[u]) < MAX_RETRIES
    /\ sent' = [sent EXCEPT ![u] =
                   Append(@, [request |-> Request(u), outcome |-> "ok"])]
    /\ retry_result' = [retry_result EXCEPT ![u] = "response"]
    /\ pc' = [pc EXCEPT ![u] = "complete"]
    /\ trace' = [trace EXCEPT ![u] = Enter(@, "deliver")]
    /\ UNCHANGED <<RAD_STRATEGY, args, loc, METRICS, LOG, uuid_issued,
                   handles, t_args, t_ret>>

(* The except clause catches every exception of the request. *)
AttemptOtherRetried(u) ==
    /\ pc[u] = "deliver"
    /\ Len(sent[u]) < MAX_RETRIES
    /\ sent' = [sent EXCEPT ![u] =
                   Append(@, [request |-> Request(u), outcome |-> "Timeout"])]
    /\ LOG' = LOG \cup {LogEntry(u, "warning", "request failed", Len(sent[u]))}
    /\ trace' = [trace EXCEPT ![u] = Enter(@, "deliver")]
    /\ UNCHANGED <<RAD_STRATEGY, pc, args, loc, retry_result, METRICS,
                   uuid_issued, handles, t_args, t_ret>>

(* One pass whose request raises an exception the except clause does not
   name (a read timeout, for one): it leaves _retryable, and line 206
   does not catch it either, so it leaves worker. *)
AttemptRaisesOther(u) ==
    /\ pc[u] = "deliver"
    /\ Len(sent[u]) < MAX_RETRIES
    /\ sent' = [sent EXCEPT ![u] =
                   Append(@, [request |-> Request(u), outcome |-> "Timeout"])]
    /\ retry_result' = [retry_result EXCEPT ![u] = "error"]
    /\ pc' = [pc EXCEPT ![u] = "raised"]
    /\ trace' = [trace EXCEPT ![u] = Enter(@, "deliver")]
    /\ METRICS' = ObserveRequestTime(METRICS)
    /\ UNCHANGED <<RAD_STRATEGY, args, loc, LOG, uuid_issued,
                   handles, t_args, t_ret>>

(* The loop gives up one pass early. *)
RetryExhaustedEarly(u) ==
    /\ pc[u] = "deliver"
    /\ Len(sent[u]) >= MAX_RETRIES - 1
    /\ retry_result' = [retry_result EXCEPT ![u] = "exhausted"]
    /\ pc' = [pc EXCEPT ![u] = "except"]
    /\ UNCHANGED <<RAD_STRATEGY, args, loc, sent, trace, METRICS, LOG,
                   uuid_issued, handles, t_args, t_ret>>

(* The for loop ran out: raise requests.HTTPError('All attempts failed'). *)
RetryExhausted(u) ==
    /\ pc[u] = "deliver"
    /\ Len(sent[u]) >= MAX_RETRIES
    /\ retry_result' = [retry_result EXCEPT ![u] = "exhausted"]
    /\ pc' = [pc EXCEPT ![u] = "except"]
    /\ UNCHANGED <<RAD_STRATEGY, args, loc, sent, trace, METRICS, LOG,
                   uuid_issued, handles, t_args, t_ret>>

(* The HTTPError of the exhausted loop is not caught. *)
HTTPErrorUncaught(u) ==
    /\ pc[u] = "except"
    /\ pc' = [pc EXCEPT ![u] = "raised"]
    /\ METRICS' = ObserveRequestTime(METRICS)
    /\ UNCHANGED <<RAD_STRATEGY, args, loc, sent, retry_result, trace,
                   LOG, uuid_issued, handles, t_args, t_ret>>

(* After the exhausted delivery the job is taken up again from the start. *)
CatchHTTPErrorRetriesJob(u) ==
    /\ pc[u] = "except"
    /\ LOG' = LOG \cup {LogEntry(u, "error", "failed to pass data",
                                 loc[u].batch_id)}
    /\ pc' = [pc EXCEPT ![u] = "validate"]
    /\ UNCHANGED <<RAD_STRATEGY, args, loc, sent, retry_result, trace,
                   METRICS, uuid_issued, handles, t_args, t_ret>>

(* except requests.HTTPError (lines 206-210): log the batch id, go on. *)
CatchHTTPError(u) ==
    /\ pc[u] = "except"
    /\ LOG' = LOG \cup {LogEntry(u, "error", "failed to pass data",
                                 loc[u].batch_id)}
    /\ pc' = [pc EXCEPT ![u] = "complete"]
    /\ UNCHANGED <<RAD_STRATEGY, args, loc, sent, retry_result, trace,
                   METRICS, uuid_issued, handles, t_args, t_ret>>

(* The counter is stepped only after a delivered response. *)
CompleteOnSuccessOnly(u) ==
    /\ pc[u] = "complete"
    /\ METRICS' = ObserveRequestTime(
                    IF retry_result[u] = "response"
                    THEN [METRICS EXCEPT !.jobs_published = @ + 1]
                    ELSE METRICS)
    /\ pc' = [pc EXCEPT ![u] = "done"]
    /\ trace' = [trace EXCEPT ![u] = Enter(@, "complete")]
    /\ UNCHANGED <<RAD_STRATEGY, args, loc, sent, retry_result, LOG,
                   uuid_issued, handles, t_args, t_ret>>

(* METRICS['jobs_published'].inc() and the return (lines 211-212). *)
Complete(u) ==
    /\ pc[u] = "complete"
    /\ METRICS' = ObserveRequestTime(
                    [METRICS EXCEPT !.jobs_published = @ + 1])
    /\ pc' = [pc EXCEPT ![u] = "done"]
    /\ trace' = [trace EXCEPT ![u] = Enter(@, "complete")]
    /\ UNCHANGED <<RAD_STRATEGY, args, loc, sent, retry_result, LOG,
                   uuid_issued, handles, t_args, t_ret>>

(***************************************************************************)
(* isolation_forest_params on its own: the arguments are drawn in the      *)
(* initial state, one call stores what it returns.                         *)
(***************************************************************************)
TuneFactors == {-1, 0, 5, 10, 11, 2000, 3000, 5000, 9999, 10000, 10001, 20000}
TuneRows == (0..MaxRows) \cup {100, 1000}

InitTune ==
    /\ RAD_STRATEGY = "scikitlearn"
    /\ pc = [u \in Units |-> "idle"]
    /\ args = [u \in Units |-> NoArgs]
    /\ loc = [u \in Units |-> InitLocals]
    /\ sent = [u \in Units |-> <<>>]
    /\ retry_result = [u \in Units |-> "none"]
    /\ trace = [u \in Units |-> <<>>]
    /\ METRICS = [request_time |-> 0, processing_time |-> 0,
                  preparation_time |-> 0,
                  data_size |-> [count |-> 0, sum |-> 0],
                  jobs_published |-> 0]
    /\ LOG = {}
    /\ uuid_issued = {}
    /\ handles = {}
    /\ t_args \in TuneFactors \X TuneFactors \X TuneRows
    /\ t_ret = <<>>

TuneCall ==
    /\ t_ret = <<>>
    /\ t_ret' = isolation_forest_params(t_args[1], t_args[2], t_args[3])
    /\ UNCHANGED <<workerVars, t_args>>

NextTune == TuneCall

SpecTune == InitTune /\ [][NextTune]_vars

Next ==
    \/ \E u \in Units, a \in CallArgs : ai_service_worker(u, a)
    \/ \E u \in Units : ValidateKeyError(u)
    \/ \E u \in Units : ValidateZero(u)
    \/ \E u \in Units : ValidateOk(u)
    \/ \E u \in Units : MintBatchId(u)
    \/ \E u \in Units : Tune(u)
    \/ \E u \in Units : PrepareOk(u)
    \/ \E u \in Units : PrepareRaises(u)
    \/ \E u \in Units : DetectScikitlearn(u)
    \/ \E u \in Units : DetectOriginal(u)
    \/ \E u \in Units : DetectRaises(u)
    \/ \E u \in Units : Package(u)
    \/ \E u \in Units, e \in Caught : AttemptFails(u, e)
    \/ \E u \in Units : AttemptSucceeds(u)
    \/ \E u \in Units : AttemptRaisesOther(u)
    \/ \E u \in Units : RetryExhausted(u)
    \/ \E u \in Units : CatchHTTPError(u)
    \/ \E u \in Units : Complete(u)

Spec == Init /\ [][Next]_vars

(***************************************************************************)
(* One step of the worker running in thread u (lines 123-212).  A started  *)
(* thread is scheduled until its target returns or raises, and each call   *)
(* it makes into rad or requests returns or raises.                        *)
(***************************************************************************)
WorkerStep(u) ==
    \/ ValidateKeyError(u)
    \/ ValidateZero(u)
    \/ ValidateOk(u)
    \/ MintBatchId(u)
    \/ Tune(u)
    \/ PrepareOk(u)
    \/ PrepareRaises(u)
    \/ DetectScikitlearn(u)
    \/ DetectOriginal(u)
    \/ DetectRaises(u)
    \/ Package(u)
    \/ \E e \in Caught : AttemptFails(u, e)
    \/ AttemptSucceeds(u)
    \/ AttemptRaisesOther(u)
    \/ RetryExhausted(u)
    \/ CatchHTTPError(u)
    \/ Complete(u)

FairSpec == Spec /\ \A u \in Units : WF_vars(WorkerStep(u))

(***************************************************************************)
(* Properties.                                                             *)
(***************************************************************************)
Dispatched(u) == pc[u] # "idle"

AllFailed(attempts) ==
    \A i \in 1..Len(attempts) : attempts[i].outcome = "failed"

Occurrences(tr, stage) == Cardinality({i \in 1..Len(tr) : tr[i] = stage})

IsPrefix(a, b) ==
    /\ Len(a) <= Len(b)
    /\ \A i \in 1..Len(a) : a[i] = b[i]

(* The delivery loop of u is over: it returned, or an exception left it. *)
RetryEnded(u) == sent[u] # <<>> /\ pc[u] # "deliver"

(* C1: when every delivery attempt fails (HTTP error status or connection
   failure), _retryable makes exactly MAX_RETRIES = 3 attempts and then
   raises the exhaustion error: a loop that has ended with nothing but
   failed attempts has made 3 of them and ended exhausted, exhaustion is
   reached only that way, and after the third failure the only step left to
   the loop is to raise. *)
C1_ExactlyThreeThenExhausted ==
    \A u \in Units :
        /\ (RetryEnded(u) /\ AllFailed(sent[u])) =>
               (Len(sent[u]) = 3 /\ retry_result[u] = "exhausted")
        /\ retry_result[u] = "exhausted" =>
               (Len(sent[u]) = 3 /\ AllFailed(sent[u]))
        /\ (pc[u] = "deliver" /\ AllFailed(sent[u]) /\ Len(sent[u]) = 3) =>
               /\ ENABLED RetryExhausted(u)
               /\ ~ENABLED AttemptSucceeds(u)
               /\ ~ENABLED AttemptRaisesOther(u)
               /\ \A e \in Caught : ~ENABLED AttemptFails(u, e)
        /\ (pc[u] = "deliver" /\ Len(sent[u]) < 3) =>
               ~ENABLED RetryExhausted(u)

C1_Witness ==
    \E u \in Units :
        /\ retry_result[u] = "exhausted"
        /\ Len(sent[u]) = 3
        /\ AllFailed(sent[u])

(* C2 as amended: at most MAX_RETRIES attempts; every attempt but the last
   one failed, so nothing is sent after a good response; and the loop ends
   on the first good response, on exhaustion, or on the first attempt that
   raises an exception other than HTTPError and ConnectionError. *)
C2_StopsAtFirstSuccess ==
    \A u \in Units :
        /\ Len(sent[u]) <= 3
        /\ \A i \in 1..(Len(sent[u]) - 1) : sent[u][i].outcome = "failed"
        /\ retry_result[u] = "response" <=>
               (sent[u] # <<>> /\ sent[u][Len(sent[u])].outcome = "ok")
        /\ retry_result[u] = "error" <=>
               (sent[u] # <<>> /\ sent[u][Len(sent[u])].outcome = "Timeout")
        /\ retry_result[u] = "exhausted" =>
               (Len(sent[u]) = 3 /\ AllFailed(sent[u]))
        /\ RetryEnded(u) <=> retry_result[u] \in {"response", "exhausted", "error"}

C2_Witness ==
    \E u \in Units :
        /\ Len(sent[u]) = 2
        /\ sent[u][1].outcome = "failed"
        /\ sent[u][2].outcome = "ok"
        /\ retry_result[u] = "response"
        /\ pc[u] = "done"

(* C2 as stated: at most 3 attempts, nothing sent after a good response,
   and a loop that has ended has ended on a good response or on
   exhaustion. *)
C2_Original ==
    \A u \in Units :
        /\ Len(sent[u]) <= 3
        /\ \A i \in 1..(Len(sent[u]) - 1) : sent[u][i].outcome = "failed"
        /\ RetryEnded(u) => retry_result[u] \in {"response", "exhausted"}

(* C3: a job without account, without data, or whose data has no total ends
   in Validate: no model invocation, no delivery attempt, nothing minted or
   built, and the worker returns instead of raising. *)
C3_MalformedJobAborted ==
    \A u \in Units :
        (Dispatched(u) /\ RaisesKeyError(args[u].job)) =>
            /\ pc[u] \in {"validate", "done"}
            /\ IsPrefix(trace[u], <<"validate">>)
            /\ sent[u] = <<>>
            /\ retry_result[u] = "none"
            /\ [loc[u] EXCEPT !.account_id = ""] = InitLocals
            /\ uuid1(u) \notin uuid_issued
            /\ pc[u] = "done" =>
                   LogEntry(u, "error", "invalid job data", 0) \in LOG

C3_Witness ==
    \E u, v \in Units :
        /\ pc[u] = "done" /\ pc[v] = "done"
        /\ ~HasKey(args[u].job, "account")
        /\ HasKey(args[v].job, "data")
        /\ ~HasKey(args[v].job.data, "total")

(* C4: a job whose total is 0 ends in Validate: no batch identifier, no
   tuning, no model run, no delivery attempt. *)
C4_ZeroRowsAborted ==
    \A u \in Units :
        (Dispatched(u) /\ ~RaisesKeyError(args[u].job)
                       /\ args[u].job.data.total = 0) =>
            /\ pc[u] \in {"validate", "done"}
            /\ IsPrefix(trace[u], <<"validate">>)
            /\ loc[u].batch_id = 0
            /\ uuid1(u) \notin uuid_issued
            /\ loc[u].num_trees = 0 /\ loc[u].sample_size = 0
            /\ loc[u].results = NoResults
            /\ loc[u].output = NoOutput
            /\ sent[u] = <<>>
            /\ retry_result[u] = "none"

C4_Witness ==
    \E u \in Units :
        /\ pc[u] = "done"
        /\ ~RaisesKeyError(args[u].job)
        /\ args[u].job.data.total = 0
        /\ trace[u] = <<"validate">>

(* C5: when delivery ends exhausted the worker logs an error with the batch
   id and goes on to return: it never raises, it ran the model once, made
   one sequence of 3 attempts, and what the earlier stages produced is
   still in place. *)
C5_ExhaustionAbsorbed ==
    \A u \in Units :
        retry_result[u] = "exhausted" =>
            /\ pc[u] \in {"except", "complete", "done"}
            /\ Len(sent[u]) = 3
            /\ Occurrences(trace[u], "detect") = 1
            /\ Occurrences(trace[u], "deliver") = 1
            /\ Occurrences(trace[u], "validate") = 1
            /\ loc[u].batch_id # 0
            /\ loc[u].results # NoResults
            /\ loc[u].output.id = loc[u].batch_id
            /\ loc[u].output.data.results = loc[u].results
            /\ pc[u] \in {"complete", "done"} =>
                   LogEntry(u, "error", "failed to pass data",
                            loc[u].batch_id) \in LOG

C5_Witness ==
    \E u \in Units :
        /\ retry_result[u] = "exhausted"
        /\ pc[u] = "done"
        /\ LogEntry(u, "error", "failed to pass data", loc[u].batch_id) \in LOG

(* C6 as amended: the jobs-published counter is stepped exactly once for
   every job whose delivery loop ended with a response or exhausted, after
   that loop has ended; a job whose delivery attempt raised another
   exception reached Deliver, ended raised, and is not counted. *)
C6_PublishedOncePerEndedDelivery ==
    /\ METRICS.jobs_published =
           Cardinality({u \in Units :
               pc[u] = "done" /\ retry_result[u] \in {"response", "exhausted"}})
    /\ \A u \in Units :
           /\ pc[u] = "complete" =>
                  retry_result[u] \in {"response", "exhausted"}
           /\ retry_result[u] = "error" => pc[u] = "raised"
           /\ (pc[u] = "done" /\ sent[u] # <<>>) =>
                  retry_result[u] \in {"response", "exhausted"}

C6_Witness ==
    \E u, v \in Units :
        /\ pc[u] = "done" /\ retry_result[u] = "response"
        /\ pc[v] = "done" /\ retry_result[v] = "exhausted"
        /\ METRICS.jobs_published = 2

(* C6 as stated: every job that reached Deliver and whose unit has ended
   has stepped the jobs-published counter exactly once. *)
C6_Original ==
    METRICS.jobs_published =
        Cardinality({u \in Units :
            pc[u] \in Terminated /\ Occurrences(trace[u], "deliver") > 0})

(* The steps of worker in the order the code runs them. *)
CodeOrder == <<"validate", "mint", "tune", "prepare", "detect", "package",
               "deliver", "complete">>

(* The place of each step in the order validate, prepare, tune, detect,
   package, deliver, complete, where prepare is the minting of the batch
   identifier together with the normalization of the batch. *)
StatedRank(step) ==
    CASE step = "validate" -> 1
      [] step = "mint" -> 2
      [] step = "prepare" -> 2
      [] step = "tune" -> 3
      [] step = "detect" -> 4
      [] step = "package" -> 5
      [] step = "deliver" -> 6
      [] step = "complete" -> 7

(* C7 as amended: the steps of one unit run one after another in the order
   validate, batch identifier, tune, normalization, detect, package,
   deliver, complete; none is skipped, repeated or run out of this order,
   and a unit that returned after delivery ran them all. *)
C7_StagesInCodeOrder ==
    \A u \in Units :
        /\ IsPrefix(trace[u], CodeOrder)
        /\ (pc[u] = "done" /\ sent[u] # <<>>) => trace[u] = CodeOrder
        /\ pc[u] = "prepare" => trace[u] = <<"validate", "mint", "tune">>
        /\ pc[u] = "detect" =>
               trace[u] = <<"validate", "mint", "tune", "prepare">>

C7_Witness ==
    \E u \in Units : pc[u] = "done" /\ trace[u] = CodeOrder

(* C7 as stated: the stages run in the order validate, prepare, tune,
   detect, package, deliver, complete, the whole of prepare before tune. *)
C7_Original ==
    \A u \in Units :
        \A i, j \in 1..Len(trace[u]) :
            i < j => StatedRank(trace[u][i]) <= StatedRank(trace[u][j])

(* C8: each output of isolation_forest_params is the truncation of
   rows * f when its own factor f lies strictly between 0.001 and 1.0, and
   of rows * 0.2 otherwise, the bounds 0.001 and 1.0 included in
   "otherwise"; 100 rows with both factors 0.3 give (30, 30). *)
C8_TuneFormula ==
    t_ret # <<>> =>
        /\ Len(t_ret) = 2
        /\ \A i \in {1, 2} :
               LET f == t_args[i]
                   r == t_args[3]
                   eff == IF f > 10 /\ f < 10000 THEN f ELSE 2000
               IN  /\ t_ret[i] \in Nat
                   /\ t_ret[i] * 10000 <= r * eff
                   /\ r * eff < (t_ret[i] + 1) * 10000
        /\ t_args = <<3000, 3000, 100>> => t_ret = <<30, 30>>

C8_Witness ==
    /\ t_args = <<10, 10000, 100>>
    /\ t_ret = <<20, 20>>

(* C9 as stated: the num_trees and sample_size handed to the detection
   strategy are both greater than 0 for every job that passed validation. *)
C9_Original ==
    \A u \in Units :
        (pc[u] = "detect" \/ Occurrences(trace[u], "detect") > 0) =>
            (loc[u].num_trees > 0 /\ loc[u].sample_size > 0)

(* C10: ai_service_worker starts the unit and hands its handle back without
   waiting: every started unit's handle is with the caller whatever stage
   the unit is in, and the next call can be made whatever the stages of the
   units already started. *)
C10_DispatchDoesNotBlock ==
    /\ handles = {u \in Units : Dispatched(u)}
    /\ \A u \in Units :
           (pc[u] = "idle" /\ \A v \in Units : v < u => Dispatched(v)) =>
               \A a \in CallArgs : ENABLED ai_service_worker(u, a)

C10_Witness ==
    /\ handles = Units
    /\ \A u \in Units : pc[u] \notin Terminated
    /\ \E u \in Units : pc[u] = "deliver" /\ Len(sent[u]) = 1
    /\ \E u \in Units : pc[u] = "validate"

Live(u) == Dispatched(u) /\ pc[u] \notin Terminated

(* The step is the strategy raising in unit u. *)
DetectionFails(u) == pc[u] = "detect" /\ pc'[u] = "raised"

(* C11: an exception of the detection strategy is not caught by worker and
   ends only the unit it was raised in: the step changes nothing of any
   other unit and logs nothing, and every other unit that has not ended can
   always take its own next step, whatever has become of its siblings. *)
C11_DetectionFailureIsolated ==
    /\ [][\A u \in Units :
             DetectionFails(u) =>
                 /\ \A v \in Units \ {u} :
                        /\ pc'[v] = pc[v]
                        /\ loc'[v] = loc[v]
                        /\ sent'[v] = sent[v]
                        /\ retry_result'[v] = retry_result[v]
                        /\ trace'[v] = trace[v]
                 /\ args' = args
                 /\ LOG' = LOG
                 /\ loc'[u] = loc[u]]_vars
    /\ [](\A v \in Units : Live(v) => ENABLED WorkerStep(v))

C11_Witness ==
    \E u, v \in Units :
        /\ pc[u] = "raised"
        /\ trace[u] = <<"validate", "mint", "tune", "prepare", "detect">>
        /\ pc[v] = "done"
        /\ retry_result[v] = "response"

Packaged(u) == loc[u].output # NoOutput

(* C12: every job execution builds its envelope with an id of its own: the
   id is the batch identifier minted by that execution's one call of uuid1,
   and no two executions, concurrent or not, of the same job or of
   different jobs, have the same batch identifier or envelope id. *)
C12_EnvelopeIdUnique ==
    /\ \A u \in Units :
           /\ loc[u].batch_id # 0 => loc[u].batch_id \in uuid_issued
           /\ Packaged(u) =>
                  (loc[u].output.id = loc[u].batch_id /\ loc[u].output.id # 0)
    /\ \A u, v \in Units :
           (u # v /\ loc[u].batch_id # 0 /\ loc[v].batch_id # 0) =>
               loc[u].batch_id # loc[v].batch_id
    /\ \A u, v \in Units :
           (u # v /\ Packaged(u) /\ Packaged(v)) =>
               loc[u].output.id # loc[v].output.id
    /\ Cardinality(uuid_issued) =
           Cardinality({u \in Units : loc[u].batch_id # 0})

C12_Witness ==
    \E u, v \in Units :
        /\ u # v
        /\ args[u] = args[v]
        /\ Packaged(u) /\ Packaged(v)
        /\ sent[u] # <<>> /\ sent[v] # <<>>
        /\ loc[u].output.id # loc[v].output.id

(* The envelope e holds what unit u was called with and what u computed. *)
OwnEnvelope(u, e) ==
    /\ e.id = loc[u].batch_id
    /\ e.id \in uuid_issued
    /\ e.ai_service = args[u].env.ai_service
    /\ e.data.account_number = args[u].job.account
    /\ e.data.results = loc[u].results
    /\ e.data.results.frame.rows = args[u].job.data.total
    /\ e.data.results.frame.inventory = args[u].job.data.inventory
    /\ e.data.results.num_trees = loc[u].num_trees
    /\ e.data.results.sample_size = loc[u].sample_size
    /\ e.data.feature_list = FEATURE_LIST

(* C13: in every interleaving the envelope a unit builds and every request
   it sends carry that unit's own job and results: the account of the job
   it was called with, the results of its own detection run on its own
   batch, the batch identifier it minted, and the configured feature
   list, sent to the address it was called with. *)
C13_EnvelopeIsOwn ==
    \A u \in Units :
        /\ Packaged(u) => OwnEnvelope(u, loc[u].output)
        /\ \A i \in 1..Len(sent[u]) :
               /\ OwnEnvelope(u, sent[u][i].request.json)
               /\ sent[u][i].request.url = args[u].next_service
               /\ sent[u][i].request.headers.x_rh_identity =
                      args[u].b64_identity

C13_Witness ==
    \E u, v \in Units :
        /\ pc[u] = "deliver" /\ pc[v] = "deliver"
        /\ sent[u] # <<>> /\ sent[v] # <<>>
        /\ args[u].job.account = "A1" /\ args[v].job.account = "A2"
        /\ sent[u][1].request.json.data.account_number = "A1"
        /\ sent[v][1].request.json.data.account_number = "A2"
        /\ sent[u][1].request.json.data.results.num_trees = 30

Stages == {"validate", "mint", "tune", "prepare", "detect", "package",
           "deliver", "complete"}

Reached(stage) == {u \in Units : Occurrences(trace[u], stage) > 0}

(* C14: one dispatch makes one execution unit, and no stage of the worker
   runs twice for one job: there are as many thread handles as dispatched
   jobs, every stage occurs at most once in a unit's history, the
   preparation and processing timers and the row-count histogram have
   observed once per unit that passed the stage, as many identifiers were
   issued as units minted one, and a unit's requests form one sequence of
   at most MAX_RETRIES attempts in which only the last can be other than
   a caught failure. *)
C14_JobConsumedOnce ==
    /\ handles = {u \in Units : Dispatched(u)}
    /\ \A u \in Units : \A s \in Stages : Occurrences(trace[u], s) <= 1
    /\ METRICS.data_size.count =
           Cardinality({u \in Reached("validate") :
                            ~RaisesKeyError(args[u].job)})
    /\ METRICS.preparation_time = Cardinality(Reached("prepare"))
    /\ METRICS.processing_time = Cardinality(Reached("detect"))
    /\ Cardinality(uuid_issued) = Cardinality(Reached("mint"))
    /\ \A u \in Units :
           /\ Len(sent[u]) <= MAX_RETRIES
           /\ \A i \in 1..Len(sent[u]) :
                  i < Len(sent[u]) => sent[u][i].outcome = "failed"
           /\ sent[u] # <<>> => Packaged(u)

C14_Witness ==
    \E u, v \in Units :
        /\ u # v
        /\ pc[u] = "done" /\ pc[v] = "done"
        /\ Len(sent[u]) = MAX_RETRIES /\ retry_result[u] = "exhausted"
        /\ retry_result[v] = "response"
        /\ METRICS.processing_time = 2

(* C15: when every thread that can take a step eventually takes one (each
   external call returns or raises), every dispatched unit eventually
   terminates, by returning or by an uncaught exception: every behaviour
   reaches a point from which on no dispatched unit is still running.  And
   a unit that has not terminated can always take its next step whatever
   the other units are doing. *)
C15_EveryUnitTerminates ==
    /\ <>[](\A u \in Units : Dispatched(u) => pc[u] \in Terminated)
    /\ [](\A u \in Units :
            pc[u] \notin Terminated \cup {"idle"} => ENABLED WorkerStep(u))

C15_Witness ==
    \E u, v \in Units :
        /\ u < v
        /\ pc[v] = "done" /\ Len(sent[v]) = MAX_RETRIES
        /\ \A i \in 1..MAX_RETRIES : sent[v][i].outcome = "failed"
        /\ pc[u] = "deliver" /\ sent[u] = <<>>

Malformed(u) == Dispatched(u) /\ RaisesKeyError(args[u].job)

(* C16: the step that ends a job with a missing key changes the metrics
   only by the one observation of the request-duration timer: the
   row-count histogram, the preparation and processing timers and the
   jobs-published counter keep their values.  That step is the only one
   the job's unit takes, so while all dispatched jobs are malformed all
   those instruments are still at zero. *)
C16_MalformedJobOnlyRequestTime ==
    /\ [][\A u \in Units :
            (Malformed(u) /\ pc[u] # pc'[u]) =>
                /\ METRICS' = [METRICS EXCEPT !.request_time = @ + 1]
                /\ pc[u] = "validate" /\ pc'[u] = "done"]_vars
    /\ []((\A u \in Units : Dispatched(u) => Malformed(u)) =>
             /\ METRICS.data_size = [count |-> 0, sum |-> 0]
             /\ METRICS.preparation_time = 0
             /\ METRICS.processing_time = 0
             /\ METRICS.jobs_published = 0
             /\ METRICS.request_time =
                    Cardinality({u \in Units : pc[u] = "done"}))

C16_Witness ==
    \E u, v \in Units :
        /\ Malformed(u) /\ pc[u] = "done"
        /\ ~Malformed(v) /\ pc[v] = "mint"
        /\ METRICS.request_time = 1
        /\ METRICS.data_size.count = 1
        /\ METRICS.jobs_published = 0

(* The strategy was called for u and gave no results. *)
DetectionFailed(u) ==
    Occurrences(trace[u], "detect") > 0 /\ loc[u].results = NoResults

(* C17: a unit whose detection strategy raised ends there with the
   exception: it has built no envelope, sent no request and not reached
   the jobs-published counter, which counts only the units that did; the
   frame and the timer observation of the preparation stage stay as they
   were.  The failing step itself changes no local, no request and no
   counter other than the processing and request timers. *)
C17_DetectionFailureStopsUnit ==
    /\ [](\A u \in Units :
            DetectionFailed(u) =>
                /\ pc[u] = "raised"
                /\ loc[u].output = NoOutput
                /\ sent[u] = <<>>
                /\ retry_result[u] = "none"
                /\ trace[u] = <<"validate", "mint", "tune", "prepare", "detect">>
                /\ loc[u].data_frame = [rows |-> args[u].job.data.total,
                                        inventory |-> args[u].job.data.inventory]
                /\ METRICS.preparation_time >= 1)
    /\ [](METRICS.jobs_published = Cardinality(Reached("complete")))
    /\ [][\A u \in Units :
            DetectionFails(u) =>
                /\ loc' = loc /\ sent' = sent
                /\ METRICS' = [METRICS EXCEPT !.processing_time = @ + 1,
                                              !.request_time = @ + 1]]_vars

C17_Witness ==
    \E u, v \in Units :
        /\ DetectionFailed(u) /\ pc[u] = "raised"
        /\ loc[u].data_frame # NoFrame
        /\ pc[v] = "done" /\ retry_result[v] = "response"
        /\ METRICS.jobs_published = 1
        /\ METRICS.preparation_time = 2

(* Attempt i of u ended with an exception other than HTTPError and
   ConnectionError. *)
OtherError(u, i) == sent[u][i].outcome \notin {"ok", "failed"}

(* C18: an attempt that fails with an error other than an HTTP error status
   or a connection failure is the last attempt of its unit: the error
   leaves _retryable without a warning and without the exhaustion error,
   the worker's handler does not log it, the unit ends with the exception
   and never reaches the jobs-published counter.  The attempts before it
   all failed with one of the two retryable errors. *)
C18_OtherErrorEndsUnit ==
    \A u \in Units : \A i \in 1..Len(sent[u]) :
        /\ i < Len(sent[u]) => sent[u][i].outcome = "failed"
        /\ OtherError(u, i) =>
               /\ i = Len(sent[u])
               /\ pc[u] = "raised"
               /\ retry_result[u] = "error"
               /\ LogEntry(u, "warning", "request failed", i - 1) \notin LOG
               /\ LogEntry(u, "error", "failed to pass data", loc[u].batch_id)
                      \notin LOG
               /\ u \notin Reached("complete")
               /\ METRICS.jobs_published <=
                      Cardinality({v \in Units : v # u /\ pc[v] = "done"})

C18_Witness ==
    \E u, v \in Units :
        /\ Len(sent[u]) = 2
        /\ sent[u][1].outcome = "failed"
        /\ OtherError(u, 2)
        /\ pc[u] = "raised"
        /\ pc[v] = "done" /\ Len(sent[v]) = MAX_RETRIES
        /\ METRICS.jobs_published = 1

(* C19: all the requests one unit has sent are the same request: the same
   method and target address, the same identity header and the same
   envelope, which is the one the unit built before the first attempt and
   still holds; no step of a unit that has an envelope changes it. *)
C19_SameRequestEveryAttempt ==
    /\ [](\A u \in Units : \A i \in 1..Len(sent[u]) :
            /\ sent[u][i].request = sent[u][1].request
            /\ sent[u][i].request.json = loc[u].output
            /\ sent[u][i].request.json.id = loc[u].batch_id
            /\ sent[u][i].request.url = args[u].next_service
            /\ sent[u][i].request.headers =
                   [x_rh_identity |-> args[u].b64_identity])
    /\ [][\A u \in Units : Packaged(u) => loc'[u] = loc[u]]_vars

C19_Witness ==
    \E u \in Units :
        /\ Len(sent[u]) = MAX_RETRIES
        /\ sent[u][1].outcome = "failed"
        /\ sent[u][2].outcome = "failed"
        /\ sent[u][3].outcome = "ok"
        /\ sent[u][3].request.json.data.account_number = "A2"
        /\ sent[u][3].request.headers.x_rh_identity = "None"

(* The units whose job has account, data and data.total and that are past
   line 130. *)
Observed ==
    {u \in Units : Dispatched(u) /\ pc[u] # "validate"
                                 /\ ~RaisesKeyError(args[u].job)}

RECURSIVE SumOfTotals(_)
SumOfTotals(S) ==
    IF S = {} THEN 0
    ELSE LET u == CHOOSE v \in S : TRUE
         IN  args[u].job.data.total + SumOfTotals(S \ {u})

ZeroRows(u) ==
    Dispatched(u) /\ ~RaisesKeyError(args[u].job) /\ args[u].job.data.total = 0

(* C20: the row-count histogram holds one observation, of the job's total,
   for every job with account, data and data.total whose unit is past
   validation, a total of 0 included: the validating step of such a unit
   adds one observation of the total whether or not it then returns for
   zero rows.  A zero-row unit is so counted in the histogram but never
   reaches the jobs-published counter, which its step leaves as it is. *)
C20_RowCountObservedOncePerValidJob ==
    /\ [](/\ METRICS.data_size.count = Cardinality(Observed)
          /\ METRICS.data_size.sum = SumOfTotals(Observed)
          /\ \A u \in Units :
                 ZeroRows(u) => /\ pc[u] \in {"validate", "done"}
                                /\ u \notin Reached("complete"))
    /\ [][\A u \in Units :
            (pc[u] = "validate" /\ pc'[u] # "validate"
                                /\ ~RaisesKeyError(args[u].job)) =>
                /\ METRICS'.data_size =
                       [count |-> METRICS.data_size.count + 1,
                        sum |-> METRICS.data_size.sum
                                    + args[u].job.data.total]
                /\ METRICS'.jobs_published = METRICS.jobs_published
                /\ ZeroRows(u) <=> pc'[u] = "done"]_vars

C20_Witness ==
    \E u, v \in Units :
        /\ ZeroRows(u) /\ pc[u] = "done"
        /\ ZeroRows(v) /\ pc[v] = "done"
        /\ u # v
        /\ METRICS.data_size = [count |-> 2, sum |-> 0]
        /\ METRICS.jobs_published = 0
        /\ METRICS.request_time = 2

====
